---- MODULE Spec2Model ----
(***************************************************************************)
(* State-machine model of the oclint driver (oclint-driver/main.cpp):      *)
(* plugin loading (prepare), the analysis run, construction of the Results *)
(* view, the reporting loop with its output streams, and the exit decision *)
(* (handleExit).  Strings that the driver computes with (the output path)  *)
(* are sequences of one-character strings.                                 *)
(***************************************************************************)
EXTENDS Integers, Sequences, FiniteSets, TLC

VARIABLES
    rulesPath,      \* option::rulesPath(): the configured rule-plugin paths
    reportTypes,    \* the reporter names requested by configuration
    outputPath,     \* option::outputPath(): the output template, <<>> when unset
    maxP,           \* option::maxP1(), maxP2(), maxP3()
    allowDup,       \* option::allowDuplicatedViolations()
    pc,             \* position of main()
    ruleIdx,        \* consumeArgRulesPath: index of the next rule path
    loadAttempts,   \* the rule-path indexes dynamicLoadRules was called on
    ruleSet,        \* oclint::RuleSet: the registered rules
    reporterLoaded, \* loadReporter() has been called
    selected,       \* reporters(): the active reporters, in order
    engine,         \* driver.run: "idle", "running", "returned" or "threw"
    collector,      \* ResultCollector: [log, errors]
    writers,        \* the engine's concurrent writers: [lock, given, todo, slot]
    results,        \* the Results view built by getResults(), or None
    idx,            \* reporting loop: index of the current reporter
    out,            \* reporting loop: the stream of the current reporter
    outStreams,     \* every stream outStream() returned, in order
    reportCalls,    \* every reporter report() was invoked on, in order
    files,          \* file system: path -> content written
    openFiles,      \* paths of the ofstreams that are open
    stdout,         \* what was written to cout
    coutClosed,     \* cout has been closed
    stderr,         \* the lines written to cerr
    exitCalls,      \* number of calls of handleExit
    phases,         \* the phases started so far, in order
    exitCode        \* the value main() returned, or None

vars == <<rulesPath, reportTypes, outputPath, maxP, allowDup, pc, ruleIdx,
          loadAttempts, ruleSet, reporterLoaded, selected, engine, collector,
          writers, results, idx, out, outStreams, reportCalls, files, openFiles,
          stdout, coutClosed, stderr, exitCalls, phases, exitCode>>

configVars == <<rulesPath, reportTypes, outputPath, maxP, allowDup>>

----------------------------------------------------------------------------
(* Bounds of the model *)

MaxPaths == 2
MaxReporters == 2
MaxLog == 2
MaxCount == 5
MaxCeil == 5
MaxLen == 4

None == "none"

----------------------------------------------------------------------------
(* Exit codes (oclint/ExitCode.h), by name *)

SUCCESS == "SUCCESS"
RULE_NOT_FOUND == "RULE_NOT_FOUND"
REPORTER_NOT_FOUND == "REPORTER_NOT_FOUND"
ERROR_WHILE_PROCESSING == "ERROR_WHILE_PROCESSING"
ERROR_WHILE_REPORTING == "ERROR_WHILE_REPORTING"
VIOLATIONS_EXCEED_THRESHOLD == "VIOLATIONS_EXCEED_THRESHOLD"
COMPILATION_ERRORS == "COMPILATION_ERRORS"

----------------------------------------------------------------------------
(* llvm::sys::path on POSIX-style strings, as outStream uses it.           *)
(* Offsets are 0-based as in the C++; NPos stands for StringRef::npos.     *)

NPos == -1

IsSeparator(c) == c = "/"

\* s.substr(from, ...) up to offset to (exclusive), offsets 0-based
Slice(s, from, to) == SubSeq(s, from + 1, to)

\* s.find_last_of(c), 0-based, NPos when absent
FindLastOf(s, c) ==
    LET hits == {i \in 1..Len(s) : s[i] = c}
    IN  IF hits = {} THEN NPos
        ELSE (CHOOSE i \in hits : \A j \in hits : j <= i) - 1

\* s.find_first_of(c, from), 0-based, NPos when absent
FindFirstOf(s, c, from) ==
    LET hits == {i \in 1..Len(s) : s[i] = c /\ i - 1 >= from}
    IN  IF hits = {} THEN NPos
        ELSE (CHOOSE i \in hits : \A j \in hits : i <= j) - 1

filename_pos(str) ==
    IF Len(str) > 0 /\ IsSeparator(str[Len(str)]) THEN Len(str) - 1
    ELSE LET pos == FindLastOf(str, "/")
         IN  IF pos = NPos \/ (pos = 1 /\ IsSeparator(str[1])) THEN 0
             ELSE pos + 1

root_dir_start(str) ==
    IF Len(str) > 3 /\ IsSeparator(str[1]) /\ str[1] = str[2]
                    /\ ~IsSeparator(str[3])
    THEN FindFirstOf(str, "/", 2)
    ELSE IF Len(str) > 0 /\ IsSeparator(str[1]) THEN 0
    ELSE NPos

RECURSIVE SkipSeparators(_, _, _)
\* the loop "while (end_pos > 0 && cond(end_pos) && is_separator(path[end_pos - 1]))"
\* of parent_path_end (strict TRUE) and of reverse_iterator::operator++
SkipSeparators(path, end_pos, strict) ==
    LET root == root_dir_start(path)
        go == /\ end_pos > 0
              /\ IF strict THEN root = NPos \/ end_pos > root
                           ELSE (end_pos - 1) # root
              /\ IsSeparator(path[end_pos])
    IN  IF go THEN SkipSeparators(path, end_pos - 1, strict) ELSE end_pos

parent_path_end(path) ==
    LET fpos == filename_pos(path)
        filename_was_sep == Len(path) > 0 /\ IsSeparator(path[fpos + 1])
        root == root_dir_start(path)
        end_pos == SkipSeparators(path, fpos, TRUE)
    IN  IF end_pos = root /\ ~filename_was_sep THEN root + 1 ELSE end_pos

parent_path(path) ==
    LET end_pos == parent_path_end(path)
    IN  IF end_pos = NPos THEN <<>> ELSE Slice(path, 0, end_pos)

\* filename(path) = *rbegin(path)
filename(path) ==
    LET root == root_dir_start(path)
        end_pos == SkipSeparators(path, Len(path), FALSE)
    IN  IF /\ Len(path) > 0
           /\ IsSeparator(path[Len(path)])
           /\ (root = NPos \/ end_pos - 1 > root)
        THEN <<".">>
        ELSE Slice(path, filename_pos(Slice(path, 0, end_pos)), end_pos)

stem(path) ==
    LET fname == filename(path)
        pos == FindLastOf(fname, ".")
    IN  IF pos = NPos THEN fname
        ELSE IF fname = <<".">> \/ fname = <<".", ".">> THEN fname
        ELSE Slice(fname, 0, pos)

----------------------------------------------------------------------------
(* Data *)

RECURSIVE SeqsUpTo(_, _)
\* the sequences over S of length at most n
SeqsUpTo(S, n) ==
    IF n = 0 THEN {<<>>}
    ELSE LET shorter == SeqsUpTo(S, n - 1)
         IN  shorter \cup {Append(q, x) : q \in shorter, x \in S}

Distinct(q) == \A i, j \in 1..Len(q) : i # j => q[i] # q[j]

Range(q) == {q[i] : i \in 1..Len(q)}

\* What a rule-plugin path can hold: an artifact that fails to load, one that
\* loads and registers nothing, one that loads and registers a rule.
Artifacts == {"bad", "empty", "one"}

Json == <<"j", "s", "o", "n">>
Xml == <<"x", "m", "l">>
Pmd == <<"p", "m", "d">>

\* The reporter names configuration may request, and those with a handler.
ReporterNames == {Json, Xml, Pmd}
ReporterRegistry == {Json, Xml}

OutReportTxt == <<"o", "u", "t", "/", "r", "e", "p", "o", "r", "t", ".", "t", "x", "t">>
OutReportJson == <<"o", "u", "t", "/", "r", "e", "p", "o", "r", "t", ".", "j", "s", "o", "n">>
ReportNoDir == <<"r", "e", "p", "o", "r", "t">>
ReportXml == <<"r", "e", "p", "o", "r", "t", ".", "x", "m", "l">>

\* A violation of priority p found at line n; rule, file, position and
\* message as in Violation.
Violation(p, n) ==
    [rule |-> p, priority |-> p, path |-> "a.m", startLine |-> n,
     startColumn |-> 1, message |-> "m"]

\* What the analysis engine may record: one finding per priority.
Violations == {Violation(p, 1) : p \in 1..3}

\* n distinct violations of priority p
ViolationsOf(p, n) == [i \in 1..n |-> Violation(p, i)]

\* The writers of the analysis engine that record concurrently.
Writers == 1..3

\* no concurrent writer: the engine records from one thread
NoWriters ==
    [lock |-> 0, given |-> [w \in Writers |-> <<>>],
     todo |-> [w \in Writers |-> <<>>], slot |-> [w \in Writers |-> 0]]

NoResults == [kind |-> "none", entries |-> <<>>, hasErrors |-> FALSE]

NoStream == [kind |-> "null", path |-> <<>>]
Cout == [kind |-> "cout", path |-> <<>>]
FileStream(p) == [kind |-> "file", path |-> p]

----------------------------------------------------------------------------
(* Results views over the collector *)

IdentityKey(v) == <<v.rule, v.path, v.startLine, v.startColumn, v.message>>

RECURSIVE UniqueEntriesAdjacent(_)
\* only a violation equal in key to the one just before it is dropped
UniqueEntriesAdjacent(log) ==
    IF log = <<>> THEN <<>>
    ELSE LET front == SubSeq(log, 1, Len(log) - 1)
             last == log[Len(log)]
         IN  IF front # <<>> /\ IdentityKey(front[Len(front)]) = IdentityKey(last)
             THEN UniqueEntriesAdjacent(front)
             ELSE Append(UniqueEntriesAdjacent(front), last)

RECURSIVE UniqueEntriesLastWins(_)
\* the last occurrence of every identity key is the one kept
UniqueEntriesLastWins(log) ==
    IF log = <<>> THEN <<>>
    ELSE LET rest == Tail(log)
         IN  IF \E i \in 1..Len(rest) : IdentityKey(rest[i]) = IdentityKey(Head(log))
             THEN UniqueEntriesLastWins(rest)
             ELSE <<Head(log)>> \o UniqueEntriesLastWins(rest)

RECURSIVE SkipAfterErase(_, _, _)
\* a duplicate is dropped and the element after it is passed over unchecked
SkipAfterErase(log, i, kept) ==
    IF i > Len(log) THEN kept
    ELSE IF \E k \in 1..Len(kept) : IdentityKey(kept[k]) = IdentityKey(log[i])
         THEN SkipAfterErase(log, i + 2,
                             IF i + 1 <= Len(log) THEN Append(kept, log[i + 1])
                             ELSE kept)
         ELSE SkipAfterErase(log, i + 1, Append(kept, log[i]))

UniqueEntriesSkipAfterErase(log) == SkipAfterErase(log, 1, <<>>)

RECURSIVE UniqueEntries(_)
\* the first occurrence of every identity key, in first-seen order
UniqueEntries(log) ==
    IF log = <<>> THEN <<>>
    ELSE LET front == SubSeq(log, 1, Len(log) - 1)
             last == log[Len(log)]
             kept == UniqueEntries(front)
         IN  IF \E i \in 1..Len(front) : IdentityKey(front[i]) = IdentityKey(last)
             THEN kept
             ELSE Append(kept, last)

RawResults(c) == [kind |-> "Raw", entries |-> c.log, hasErrors |-> c.errors]

UniqueResults(c) ==
    [kind |-> "Unique", entries |-> UniqueEntries(c.log), hasErrors |-> c.errors]

numberOfViolationsWithPriority(r, p) ==
    Cardinality({i \in 1..Len(r.entries) : r.entries[i].priority = p})

\* the two views are chosen the wrong way round
getResultsSwapped(allow, c) == IF allow THEN UniqueResults(c) ELSE RawResults(c)

getResults(allow, c) == IF allow THEN RawResults(c) ELSE UniqueResults(c)

----------------------------------------------------------------------------
(* Pure parts of main.cpp *)

hasOutputPath == outputPath # <<>>

numberOfViolationsExceedThresholdGE(r) ==
    \/ numberOfViolationsWithPriority(r, 1) >= maxP[1]
    \/ numberOfViolationsWithPriority(r, 2) >= maxP[2]
    \/ numberOfViolationsWithPriority(r, 3) >= maxP[3]

numberOfViolationsExceedThreshold(r) ==
    \/ numberOfViolationsWithPriority(r, 1) > maxP[1]
    \/ numberOfViolationsWithPriority(r, 2) > maxP[2]
    \/ numberOfViolationsWithPriority(r, 3) > maxP[3]

handleExitThresholdFirst(r) ==
    IF numberOfViolationsExceedThreshold(r) THEN VIOLATIONS_EXCEED_THRESHOLD
    ELSE IF r.hasErrors THEN COMPILATION_ERRORS
    ELSE SUCCESS

\* the value handleExit returns
handleExit(r) ==
    IF r.hasErrors THEN COMPILATION_ERRORS
    ELSE IF numberOfViolationsExceedThreshold(r) THEN VIOLATIONS_EXCEED_THRESHOLD
    ELSE SUCCESS

outputFileSameForAll(name) == outputPath

\* the path outStream opens for the reporter called name
outputFile(name) ==
    parent_path(outputPath) \o <<"/">> \o stem(outputPath) \o <<".">> \o name

disposeClosesAlways(o) == o # NoStream

\* whether disposeOutStream closes the stream
disposeCloses(o) == o # NoStream /\ hasOutputPath

noRuleLoadedStrict(n) == n < 0

\* prepare: "numberOfRules() <= 0"
noRuleLoaded(n) == n <= 0

ErrorLine(msg) == [text |-> msg, counts |-> <<>>]

\* nothing is printed
printErrorLineSilent(err, msg) == err

\* printErrorLine: cerr << endl << "oclint: error: " << errorMessage << endl
printErrorLine(err, msg) == err \o <<ErrorLine(""), ErrorLine(msg)>>

\* only the first breached priority is reported
printViolationsExceedThresholdErrorFirstBreached(err, r) ==
    LET p == CHOOSE q \in 1..3 :
                 /\ numberOfViolationsWithPriority(r, q) > maxP[q]
                 /\ \A o \in 1..(q - 1) : numberOfViolationsWithPriority(r, o) <= maxP[o]
    IN  Append(printErrorLine(err, "violations exceed threshold"),
               [text |-> "P=[]",
                counts |-> <<numberOfViolationsWithPriority(r, p), maxP[p]>>])

\* printViolationsExceedThresholdError: the error line, then counts and ceilings
printViolationsExceedThresholdError(err, r) ==
    Append(printErrorLine(err, "violations exceed threshold"),
           [text |-> "P1=[] P2=[] P3=[]",
            counts |-> <<numberOfViolationsWithPriority(r, 1), maxP[1],
                         numberOfViolationsWithPriority(r, 2), maxP[2],
                         numberOfViolationsWithPriority(r, 3), maxP[3]>>])

\* what a reporter writes for a view; a failed report may leave it incomplete
Report(name, r, whole) == [reporter |-> name, view |-> r, complete |-> whole]

----------------------------------------------------------------------------
(* Initial states *)

\* the thresholds the pipeline is run with
Ceilings == {[p \in 1..3 |-> c] : c \in {0, 1}}

Templates == {<<>>, OutReportTxt}

\* the state main() is in once option::process has returned
Fresh ==
    /\ pc = "prepare"
    /\ ruleIdx = 1
    /\ loadAttempts = <<>>
    /\ ruleSet = <<>>
    /\ reporterLoaded = FALSE
    /\ selected = <<>>
    /\ engine = "idle"
    /\ collector = [log |-> <<>>, errors |-> FALSE]
    /\ writers = NoWriters
    /\ results = NoResults
    /\ idx = 1
    /\ out = NoStream
    /\ outStreams = <<>>
    /\ reportCalls = <<>>
    /\ files = <<>>
    /\ openFiles = {}
    /\ stdout = <<>>
    /\ coutClosed = FALSE
    /\ stderr = <<>>
    /\ exitCalls = 0
    /\ phases = <<>>
    /\ exitCode = None

Init ==
    /\ rulesPath \in SeqsUpTo(Artifacts, MaxPaths)
    /\ reportTypes \in {q \in SeqsUpTo(ReporterNames, MaxReporters) : Distinct(q)}
    /\ outputPath \in Templates
    /\ maxP \in Ceilings
    /\ allowDup \in BOOLEAN
    /\ Fresh

----------------------------------------------------------------------------
(* prepare() *)

\* main: prepare() is entered
Prepare ==
    /\ pc = "prepare"
    /\ pc' = "loadRules"
    /\ phases' = Append(phases, "loading")
    /\ UNCHANGED <<configVars, writers, ruleIdx, loadAttempts, ruleSet, reporterLoaded,
                   selected, engine, collector, results, idx, out, outStreams,
                   reportCalls, files, openFiles, stdout, coutClosed, stderr,
                   exitCalls, exitCode>>

\* the rules the artifact at path i registers
RulesOf(i) == IF rulesPath[i] = "one" THEN <<i>> ELSE <<>>

\* a failing load is swallowed and the loop goes on
DynamicLoadRulesContinue ==
    /\ pc = "loadRules"
    /\ ruleIdx <= Len(rulesPath)
    /\ loadAttempts' = Append(loadAttempts, ruleIdx)
    /\ ruleSet' = IF rulesPath[ruleIdx] = "bad" THEN ruleSet
                  ELSE ruleSet \o RulesOf(ruleIdx)
    /\ ruleIdx' = ruleIdx + 1
    /\ UNCHANGED <<configVars, writers, pc, reporterLoaded, selected, engine, collector,
                   results, idx, out, outStreams, reportCalls, files, openFiles,
                   stdout, coutClosed, stderr, exitCalls, phases, exitCode>>

\* consumeArgRulesPath: one iteration, dynamicLoadRules(rulePath); when it
\* throws, prepare prints the error and main returns RULE_NOT_FOUND
DynamicLoadRules ==
    /\ pc = "loadRules"
    /\ ruleIdx <= Len(rulesPath)
    /\ loadAttempts' = Append(loadAttempts, ruleIdx)
    /\ IF rulesPath[ruleIdx] = "bad"
       THEN /\ stderr' = printErrorLine(stderr, "cannot open dynamic library")
            /\ exitCode' = RULE_NOT_FOUND
            /\ pc' = "done"
            /\ UNCHANGED <<ruleSet, ruleIdx>>
       ELSE /\ ruleSet' = ruleSet \o RulesOf(ruleIdx)
            /\ ruleIdx' = ruleIdx + 1
            /\ UNCHANGED <<stderr, exitCode, pc>>
    /\ UNCHANGED <<configVars, writers, reporterLoaded, selected, engine, collector,
                   results, idx, out, outStreams, reportCalls, files, openFiles,
                   stdout, coutClosed, exitCalls, phases>>

\* prepare: the path list is exhausted; "no rule loaded" when the registry is empty
CheckRules ==
    /\ pc = "loadRules"
    /\ ruleIdx > Len(rulesPath)
    /\ IF noRuleLoaded(Len(ruleSet))
       THEN /\ stderr' = printErrorLine(stderr, "no rule loaded")
            /\ exitCode' = RULE_NOT_FOUND
            /\ pc' = "done"
       ELSE /\ pc' = "loadReporter"
            /\ UNCHANGED <<stderr, exitCode>>
    /\ UNCHANGED <<configVars, writers, ruleIdx, loadAttempts, ruleSet, reporterLoaded,
                   selected, engine, collector, results, idx, out, outStreams,
                   reportCalls, files, openFiles, stdout, coutClosed, exitCalls,
                   phases>>

\* every requested reporter name has a handler
AllResolved == \A i \in 1..Len(reportTypes) : reportTypes[i] \in ReporterRegistry

\* the failure of loadReporter is ignored and prepare returns SUCCESS
LoadReporterIgnoreFailure ==
    /\ pc = "loadReporter"
    /\ reporterLoaded' = TRUE
    /\ selected' = SelectSeq(reportTypes, LAMBDA n : n \in ReporterRegistry)
    /\ pc' = "run"
    /\ UNCHANGED <<configVars, writers, ruleIdx, loadAttempts, ruleSet, engine, collector,
                   results, idx, out, outStreams, reportCalls, files, openFiles,
                   stdout, coutClosed, stderr, exitCalls, phases, exitCode>>

\* prepare: loadReporter(); when it throws, prepare prints the error and main
\* returns REPORTER_NOT_FOUND, else prepare returns SUCCESS
LoadReporter ==
    /\ pc = "loadReporter"
    /\ reporterLoaded' = TRUE
    /\ IF AllResolved
       THEN /\ selected' = reportTypes
            /\ pc' = "run"
            /\ UNCHANGED <<stderr, exitCode>>
       ELSE /\ stderr' = printErrorLine(stderr, "cannot find reporter")
            /\ exitCode' = REPORTER_NOT_FOUND
            /\ pc' = "done"
            /\ UNCHANGED selected
    /\ UNCHANGED <<configVars, writers, ruleIdx, loadAttempts, ruleSet, engine, collector,
                   results, idx, out, outStreams, reportCalls, files, openFiles,
                   stdout, coutClosed, exitCalls, phases>>

----------------------------------------------------------------------------
(* The analysis run *)

\* main: prepare() returned SUCCESS; driver.run(...) is called
DriverRun ==
    /\ pc = "run"
    /\ engine' = "running"
    /\ pc' = "analysis"
    /\ phases' = Append(phases, "analysis")
    /\ UNCHANGED <<configVars, writers, ruleIdx, loadAttempts, ruleSet, reporterLoaded,
                   selected, collector, results, idx, out, outStreams,
                   reportCalls, files, openFiles, stdout, coutClosed, stderr,
                   exitCalls, exitCode>>

\* the engine records a violation in the collector
Record ==
    /\ engine = "running"
    /\ Len(collector.log) < MaxLog
    /\ \E v \in Violations :
           collector' = [collector EXCEPT !.log = Append(@, v)]
    /\ UNCHANGED <<configVars, writers, pc, ruleIdx, loadAttempts, ruleSet,
                   reporterLoaded, selected, engine, results, idx, out,
                   outStreams, reportCalls, files, openFiles, stdout,
                   coutClosed, stderr, exitCalls, phases, exitCode>>

\* the engine records a hard analysis error
RecordError ==
    /\ engine = "running"
    /\ ~collector.errors
    /\ collector' = [collector EXCEPT !.errors = TRUE]
    /\ UNCHANGED <<configVars, writers, pc, ruleIdx, loadAttempts, ruleSet,
                   reporterLoaded, selected, engine, results, idx, out,
                   outStreams, reportCalls, files, openFiles, stdout,
                   coutClosed, stderr, exitCalls, phases, exitCode>>

\* driver.run returns normally
DriverReturn ==
    /\ pc = "analysis"
    /\ engine = "running"
    /\ engine' = "returned"
    /\ pc' = "getResults"
    /\ UNCHANGED <<configVars, writers, ruleIdx, loadAttempts, ruleSet, reporterLoaded,
                   selected, collector, results, idx, out, outStreams,
                   reportCalls, files, openFiles, stdout, coutClosed, stderr,
                   exitCalls, phases, exitCode>>

\* the exception of driver.run is swallowed and main goes on
DriverThrowSwallowed ==
    /\ pc = "analysis"
    /\ engine = "running"
    /\ engine' = "threw"
    /\ pc' = "getResults"
    /\ UNCHANGED <<configVars, writers, ruleIdx, loadAttempts, ruleSet, reporterLoaded,
                   selected, collector, results, idx, out, outStreams,
                   reportCalls, files, openFiles, stdout, coutClosed, stderr,
                   exitCalls, phases, exitCode>>

\* driver.run throws: main prints the error and returns ERROR_WHILE_PROCESSING
DriverThrow ==
    /\ pc = "analysis"
    /\ engine = "running"
    /\ engine' = "threw"
    /\ stderr' = printErrorLine(stderr, "processing failed")
    /\ exitCode' = ERROR_WHILE_PROCESSING
    /\ pc' = "done"
    /\ UNCHANGED <<configVars, writers, ruleIdx, loadAttempts, ruleSet, reporterLoaded,
                   selected, collector, results, idx, out, outStreams,
                   reportCalls, files, openFiles, stdout, coutClosed,
                   exitCalls, phases>>

\* the view is built while driver.run is still running
GetResultsEarly ==
    /\ pc \in {"analysis", "getResults"}
    /\ results = NoResults
    /\ results' = getResults(allowDup, collector)
    /\ pc' = IF pc = "analysis" THEN pc ELSE "reporting"
    /\ phases' = Append(phases, "results")
    /\ UNCHANGED <<configVars, writers, ruleIdx, loadAttempts, ruleSet, reporterLoaded,
                   selected, engine, collector, idx, out, outStreams,
                   reportCalls, files, openFiles, stdout, coutClosed, stderr,
                   exitCalls, exitCode>>

\* main: results(getResults())
GetResults ==
    /\ pc = "getResults"
    /\ results' = getResults(allowDup, collector)
    /\ pc' = "reporting"
    /\ phases' = Append(phases, "results")
    /\ UNCHANGED <<configVars, writers, ruleIdx, loadAttempts, ruleSet, reporterLoaded,
                   selected, engine, collector, idx, out, outStreams,
                   reportCalls, files, openFiles, stdout, coutClosed, stderr,
                   exitCalls, exitCode>>

----------------------------------------------------------------------------
(* The reporting loop *)

\* the reporting phase is entered by the first evaluation of the loop head
EnterReporting ==
    IF idx = 1 /\ outStreams = <<>> /\ "reporting" \notin Range(phases)
    THEN Append(phases, "reporting") ELSE phases

\* ofstream(path): the file is created, or truncated when it exists
Opened(path) ==
    [p \in DOMAIN files \cup {path} |-> IF p = path THEN <<>> ELSE files[p]]

\* operator<< on a stream: the chunk is appended to what the stream holds
Written(o, chunk) ==
    IF o.kind = "file" THEN [files EXCEPT ![o.path] = Append(@, chunk)] ELSE files

\* outStream(reporter): cout, or the file derived from the template; when the
\* file cannot be opened it throws, main prints the error and returns
\* ERROR_WHILE_REPORTING
OutStream ==
    /\ pc = "reporting"
    /\ idx <= Len(selected)
    /\ phases' = EnterReporting
    /\ IF ~hasOutputPath
       THEN /\ out' = Cout
            /\ outStreams' = Append(outStreams, Cout)
            /\ pc' = "report"
            /\ UNCHANGED <<files, openFiles, stderr, exitCode>>
       ELSE LET path == outputFile(selected[idx])
            IN  \E isOpen \in BOOLEAN :
                    IF isOpen
                    THEN /\ files' = Opened(path)
                         /\ openFiles' = openFiles \cup {path}
                         /\ out' = FileStream(path)
                         /\ outStreams' = Append(outStreams, FileStream(path))
                         /\ pc' = "report"
                         /\ UNCHANGED <<stderr, exitCode>>
                    ELSE /\ stderr' = printErrorLine(stderr,
                                          "cannot open report output file")
                         /\ exitCode' = ERROR_WHILE_REPORTING
                         /\ pc' = "done"
                         /\ UNCHANGED <<files, openFiles, out, outStreams>>
    /\ UNCHANGED <<configVars, writers, ruleIdx, loadAttempts, ruleSet, reporterLoaded,
                   selected, engine, collector, results, idx, reportCalls,
                   stdout, coutClosed, exitCalls>>

\* reporter->report(results, *out): the whole report is written, or report
\* throws after writing nothing or part of it, main prints the error and
\* returns ERROR_WHILE_REPORTING
ReporterReport ==
    /\ pc = "report"
    /\ reportCalls' = Append(reportCalls, selected[idx])
    /\ \E ok \in BOOLEAN, wrote \in BOOLEAN :
          /\ ok => wrote
          /\ LET chunk == Report(selected[idx], results, ok)
             IN  /\ files' = IF wrote THEN Written(out, chunk) ELSE files
                 /\ stdout' = IF wrote /\ out.kind = "cout"
                              THEN Append(stdout, chunk) ELSE stdout
          /\ IF ok
             THEN /\ pc' = "dispose"
                  /\ UNCHANGED <<stderr, exitCode>>
             ELSE /\ stderr' = printErrorLine(stderr, "report failed")
                  /\ exitCode' = ERROR_WHILE_REPORTING
                  /\ pc' = "done"
    /\ UNCHANGED <<configVars, writers, ruleIdx, loadAttempts, ruleSet, reporterLoaded,
                   selected, engine, collector, results, idx, out, outStreams,
                   openFiles, coutClosed, exitCalls, phases>>

\* disposeOutStream(out), then the loop moves to the next reporter
DisposeOutStream ==
    /\ pc = "dispose"
    /\ IF disposeCloses(out)
       THEN /\ openFiles' = IF out.kind = "file" THEN openFiles \ {out.path}
                            ELSE openFiles
            /\ coutClosed' = (coutClosed \/ out.kind = "cout")
       ELSE UNCHANGED <<openFiles, coutClosed>>
    /\ idx' = idx + 1
    /\ out' = NoStream
    /\ pc' = "reporting"
    /\ UNCHANGED <<configVars, writers, ruleIdx, loadAttempts, ruleSet, reporterLoaded,
                   selected, engine, collector, results, outStreams,
                   reportCalls, files, stdout, stderr, exitCalls, phases,
                   exitCode>>

----------------------------------------------------------------------------
(* The exit decision *)

\* the exit decision is taken without waiting for the reporters
HandleExitBeforeReporting ==
    /\ pc = "reporting"
    /\ exitCalls' = exitCalls + 1
    /\ phases' = Append(EnterReporting, "exit")
    /\ exitCode' = handleExit(results)
    /\ stderr' = IF handleExit(results) = VIOLATIONS_EXCEED_THRESHOLD
                 THEN printViolationsExceedThresholdError(stderr, results)
                 ELSE stderr
    /\ pc' = "done"
    /\ UNCHANGED <<configVars, writers, ruleIdx, loadAttempts, ruleSet,
                   reporterLoaded, selected, engine, collector, results, idx,
                   out, outStreams, reportCalls, files, openFiles, stdout,
                   coutClosed>>

\* main: the loop is over; return handleExit(results.get())
HandleExit ==
    /\ pc = "reporting"
    /\ idx > Len(selected)
    /\ exitCalls' = exitCalls + 1
    /\ phases' = Append(EnterReporting, "exit")
    /\ exitCode' = handleExit(results)
    /\ stderr' = IF handleExit(results) = VIOLATIONS_EXCEED_THRESHOLD
                 THEN printViolationsExceedThresholdError(stderr, results)
                 ELSE stderr
    /\ pc' = "done"
    /\ UNCHANGED <<configVars, writers, ruleIdx, loadAttempts, ruleSet, reporterLoaded,
                   selected, engine, collector, results, idx, out, outStreams,
                   reportCalls, files, openFiles, stdout, coutClosed>>

----------------------------------------------------------------------------
(* The driver *)

Next ==
    \/ Prepare
    \/ DynamicLoadRules
    \/ CheckRules
    \/ LoadReporter
    \/ DriverRun
    \/ Record
    \/ RecordError
    \/ DriverReturn
    \/ DriverThrow
    \/ GetResults
    \/ OutStream
    \/ ReporterReport
    \/ DisposeOutStream
    \/ HandleExit

Spec == Init /\ [][Next]_vars

----------------------------------------------------------------------------
(* The exit decision on its own: main() has reached "return handleExit",   *)
(* with any counts per priority, any ceilings, with and without a hard     *)
(* analysis error.                                                         *)

InitExit ==
    /\ rulesPath = <<"one">>
    /\ reportTypes = <<>>
    /\ outputPath = <<>>
    /\ maxP \in [1..3 -> 0..MaxCeil]
    /\ allowDup = FALSE
    /\ pc = "reporting"
    /\ ruleIdx = 2
    /\ loadAttempts = <<1>>
    /\ ruleSet = <<1>>
    /\ reporterLoaded = TRUE
    /\ selected = <<>>
    /\ engine = "returned"
    /\ \E n1 \in 0..MaxCount, n2 \in 0..MaxCount, n3 \in 0..MaxCount,
          e \in BOOLEAN :
           collector = [log |-> ViolationsOf(1, n1) \o ViolationsOf(2, n2)
                                  \o ViolationsOf(3, n3),
                        errors |-> e]
    /\ writers = NoWriters
    /\ results = getResults(allowDup, collector)
    /\ idx = 1
    /\ out = NoStream
    /\ outStreams = <<>>
    /\ reportCalls = <<>>
    /\ files = <<>>
    /\ openFiles = {}
    /\ stdout = <<>>
    /\ coutClosed = FALSE
    /\ stderr = <<>>
    /\ exitCalls = 0
    /\ phases = <<"loading", "analysis", "results">>
    /\ exitCode = None

NextExit == HandleExit

SpecExit == InitExit /\ [][NextExit]_vars

----------------------------------------------------------------------------
(* The output resolver on its own: main() enters the reporting loop with   *)
(* one reporter and any output template over a small alphabet.             *)

PathAlphabet == {"/", ".", "a"}

PathTemplates ==
    (SeqsUpTo(PathAlphabet, MaxLen) \ {<<>>}) \cup {OutReportTxt, ReportNoDir}

InitPath ==
    /\ rulesPath = <<"one">>
    /\ reportTypes \in {<<Json>>, <<Xml>>}
    /\ outputPath \in PathTemplates
    /\ maxP = [p \in 1..3 |-> 0]
    /\ allowDup = FALSE
    /\ pc = "reporting"
    /\ ruleIdx = 2
    /\ loadAttempts = <<1>>
    /\ ruleSet = <<1>>
    /\ reporterLoaded = TRUE
    /\ selected = reportTypes
    /\ engine = "returned"
    /\ collector = [log |-> <<>>, errors |-> FALSE]
    /\ writers = NoWriters
    /\ results = getResults(allowDup, collector)
    /\ idx = 1
    /\ out = NoStream
    /\ outStreams = <<>>
    /\ reportCalls = <<>>
    /\ files = <<>>
    /\ openFiles = {}
    /\ stdout = <<>>
    /\ coutClosed = FALSE
    /\ stderr = <<>>
    /\ exitCalls = 0
    /\ phases = <<"loading", "analysis", "results">>
    /\ exitCode = None

NextPath ==
    \/ OutStream
    \/ ReporterReport
    \/ DisposeOutStream
    \/ HandleExit

SpecPath == InitPath /\ [][NextPath]_vars

----------------------------------------------------------------------------
(* The Results views on their own: the engine has returned with any log    *)
(* over findings that share identity keys and differ in priority.          *)

MaxViewLog == 3

Finding(r, p) ==
    [rule |-> r, priority |-> p, path |-> "a.m", startLine |-> 1,
     startColumn |-> 1, message |-> "m"]

Findings == {Finding(r, p) : r \in 1..2, p \in 1..2}

InitView ==
    /\ rulesPath = <<"one">>
    /\ reportTypes = <<>>
    /\ outputPath = <<>>
    /\ maxP = [p \in 1..3 |-> 1]
    /\ allowDup \in BOOLEAN
    /\ pc = "getResults"
    /\ ruleIdx = 2
    /\ loadAttempts = <<1>>
    /\ ruleSet = <<1>>
    /\ reporterLoaded = TRUE
    /\ selected = <<>>
    /\ engine = "returned"
    /\ \E log \in SeqsUpTo(Findings, MaxViewLog) :
           collector = [log |-> log, errors |-> FALSE]
    /\ writers = NoWriters
    /\ results = NoResults
    /\ idx = 1
    /\ out = NoStream
    /\ outStreams = <<>>
    /\ reportCalls = <<>>
    /\ files = <<>>
    /\ openFiles = {}
    /\ stdout = <<>>
    /\ coutClosed = FALSE
    /\ stderr = <<>>
    /\ exitCalls = 0
    /\ phases = <<"loading", "analysis">>
    /\ exitCode = None

NextView ==
    \/ GetResults
    \/ HandleExit

SpecView == InitView /\ [][NextView]_vars

----------------------------------------------------------------------------
(* Concurrent recording: the engine runs several writers, each with its    *)
(* own violations to record.  record(v) takes the collector's lock, reads  *)
(* the end of the log, stores v there and releases the lock.               *)

MaxPerWriter == 2

\* the log with v stored at position k
Stored(log, k, v) ==
    IF k <= Len(log) THEN [log EXCEPT ![k] = v] ELSE Append(log, v)

\* no mutual exclusion: a writer enters whatever the others do
mayEnterUnlocked(w) == TRUE

\* record: the lock is free
mayEnter(w) == writers.lock = 0

\* record(v), first half: writer w takes the lock and reads the end of the log
RecordBegin(w) ==
    /\ engine = "running"
    /\ writers.todo[w] # <<>>
    /\ writers.slot[w] = 0
    /\ mayEnter(w)
    /\ writers' = [writers EXCEPT !.lock = w,
                                  !.slot[w] = Len(collector.log) + 1]
    /\ UNCHANGED <<configVars, pc, ruleIdx, loadAttempts, ruleSet,
                   reporterLoaded, selected, engine, collector, results, idx,
                   out, outStreams, reportCalls, files, openFiles, stdout,
                   coutClosed, stderr, exitCalls, phases, exitCode>>

\* record(v), second half: writer w stores its violation and releases the lock
RecordEnd(w) ==
    /\ engine = "running"
    /\ writers.slot[w] # 0
    /\ collector' = [collector EXCEPT
                        !.log = Stored(@, writers.slot[w], Head(writers.todo[w]))]
    /\ writers' = [writers EXCEPT !.lock = 0,
                                  !.slot[w] = 0,
                                  !.todo[w] = Tail(@)]
    /\ UNCHANGED <<configVars, pc, ruleIdx, loadAttempts, ruleSet,
                   reporterLoaded, selected, engine, results, idx, out,
                   outStreams, reportCalls, files, openFiles, stdout,
                   coutClosed, stderr, exitCalls, phases, exitCode>>

WriterBegins == \E w \in Writers : RecordBegin(w)

WriterEnds == \E w \in Writers : RecordEnd(w)

\* driver.run returns once every writer has recorded all it had
WritersJoined ==
    /\ \A w \in Writers : writers.todo[w] = <<>> /\ writers.slot[w] = 0
    /\ DriverReturn

InitConc ==
    /\ rulesPath = <<"one">>
    /\ reportTypes = <<>>
    /\ outputPath = <<>>
    /\ maxP = [p \in 1..3 |-> 1]
    /\ allowDup = TRUE
    /\ pc = "analysis"
    /\ ruleIdx = 2
    /\ loadAttempts = <<1>>
    /\ ruleSet = <<1>>
    /\ reporterLoaded = TRUE
    /\ selected = <<>>
    /\ engine = "running"
    /\ collector = [log |-> <<>>, errors |-> FALSE]
    /\ \E n \in [Writers -> 0..MaxPerWriter] :
           writers = [lock |-> 0,
                      given |-> [w \in Writers |-> ViolationsOf(w, n[w])],
                      todo |-> [w \in Writers |-> ViolationsOf(w, n[w])],
                      slot |-> [w \in Writers |-> 0]]
    /\ results = NoResults
    /\ idx = 1
    /\ out = NoStream
    /\ outStreams = <<>>
    /\ reportCalls = <<>>
    /\ files = <<>>
    /\ openFiles = {}
    /\ stdout = <<>>
    /\ coutClosed = FALSE
    /\ stderr = <<>>
    /\ exitCalls = 0
    /\ phases = <<"loading", "analysis">>
    /\ exitCode = None

NextConc ==
    \/ WriterBegins
    \/ WriterEnds
    \/ WritersJoined
    \/ GetResults

SpecConc == InitConc /\ [][NextConc]_vars

----------------------------------------------------------------------------
(* Properties *)

\* the count of priority p in the view the exit decision was taken on
Count(p) == Cardinality({i \in 1..Len(results.entries) : results.entries[i].priority = p})

\* C1: once the exit decision has been taken on a view that reports a hard
\* analysis error, the outcome is CompilationErrors, whatever the counts and
\* the ceilings are.
C1_HardErrorForcesCompilationErrors ==
    (exitCalls > 0 /\ results.hasErrors) => exitCode = COMPILATION_ERRORS

\* C1 witness: the decision was taken with a hard error and a count above
\* its ceiling.
C1_Witness ==
    /\ exitCalls > 0
    /\ results.hasErrors
    /\ Count(1) > maxP[1]
    /\ exitCode = COMPILATION_ERRORS

\* C2: without a hard analysis error the outcome is ViolationsExceedThreshold
\* exactly when some priority's count is strictly greater than its ceiling,
\* and Success otherwise; counts (5, 0, 0) fail against max1 = 4 and pass
\* against ceilings (5, 0, 0).
C2_ExceedIsStrictlyGreater ==
    (exitCalls > 0 /\ ~results.hasErrors) =>
        /\ exitCode \in {VIOLATIONS_EXCEED_THRESHOLD, SUCCESS}
        /\ exitCode = VIOLATIONS_EXCEED_THRESHOLD
               <=> (\E p \in 1..3 : Count(p) > maxP[p])
        /\ (Count(1) = 5 /\ maxP[1] = 4) => exitCode = VIOLATIONS_EXCEED_THRESHOLD
        /\ (<<Count(1), Count(2), Count(3)>> = <<5, 0, 0>> /\ maxP[1] = 5)
               => exitCode = SUCCESS

\* C2 witness: five violations of priority 1 against a ceiling of five pass.
C2_Witness ==
    /\ exitCalls > 0
    /\ ~results.hasErrors
    /\ <<Count(1), Count(2), Count(3)>> = <<5, 0, 0>>
    /\ maxP[1] = 5
    /\ exitCode = SUCCESS

\* the whole rule-path list was processed without a load error
AllPathsLoaded == ruleIdx > Len(rulesPath) /\ Len(loadAttempts) = Len(rulesPath)

\* C3: when the whole rule-path list was processed without a load error and
\* the registry holds no rule, main never gets past prepare, the engine is
\* never run and the outcome is RuleNotFound.
C3_NoRuleMeansRuleNotFound ==
    (AllPathsLoaded /\ Len(ruleSet) = 0) =>
        /\ pc \in {"prepare", "loadRules", "done"}
        /\ engine = "idle"
        /\ "analysis" \notin Range(phases)
        /\ pc = "done" => exitCode = RULE_NOT_FOUND

\* C3 witness: a non-empty path list whose artifacts register nothing.
C3_Witness ==
    /\ pc = "done"
    /\ Len(rulesPath) > 0
    /\ AllPathsLoaded
    /\ ruleSet = <<>>
    /\ exitCode = RULE_NOT_FOUND

\* some requested reporter name has no handler
Unresolved == \E i \in 1..Len(reportTypes) : reportTypes[i] \notin ReporterRegistry

\* every rule path loads and some path registers a rule
RulesConfiguredOk ==
    /\ \A i \in 1..Len(rulesPath) : rulesPath[i] # "bad"
    /\ \E i \in 1..Len(rulesPath) : rulesPath[i] = "one"

\* C4 as stated: a run with an unresolved reporter name ends with
\* ReporterNotFound.
C4_UnresolvedAlwaysReporterNotFound ==
    (Unresolved /\ pc = "done") => exitCode = REPORTER_NOT_FOUND

\* C4 amended: with an unresolved reporter name the engine never starts, and
\* the run ends with ReporterNotFound when the rules loaded and at least one
\* rule is registered, and with RuleNotFound otherwise.
C4_UnresolvedFailsBeforeAnalysis ==
    Unresolved =>
        /\ engine = "idle"
        /\ "analysis" \notin Range(phases)
        /\ pc = "done" =>
               exitCode = (IF RulesConfiguredOk THEN REPORTER_NOT_FOUND
                                                ELSE RULE_NOT_FOUND)

\* C4 witness: the rules loaded and a requested reporter is unresolved.
C4_Witness ==
    /\ Unresolved
    /\ pc = "done"
    /\ Len(ruleSet) > 0
    /\ exitCode = REPORTER_NOT_FOUND

\* the indexes below n of the paths that register a rule, in order
RECURSIVE RegisteredBefore(_)
RegisteredBefore(n) ==
    IF n <= 1 THEN <<>>
    ELSE IF rulesPath[n - 1] = "one" THEN Append(RegisteredBefore(n - 1), n - 1)
    ELSE RegisteredBefore(n - 1)

\* C5: once the load of path i failed, paths 1..i are all that was attempted,
\* the rules of paths 1..i-1 are still registered, the outcome is
\* RuleNotFound, and neither loadReporter nor the engine has run.
C5_RuleLoadingFailFast ==
    \A i \in 1..Len(rulesPath) :
        (rulesPath[i] = "bad" /\ i \in Range(loadAttempts)) =>
            /\ loadAttempts = [j \in 1..i |-> j]
            /\ ruleSet = RegisteredBefore(i)
            /\ pc = "done"
            /\ exitCode = RULE_NOT_FOUND
            /\ ~reporterLoaded
            /\ engine = "idle"

\* C5 witness: the first path registered a rule, the second failed to load.
C5_Witness ==
    /\ Len(rulesPath) >= 2
    /\ rulesPath[1] = "one"
    /\ rulesPath[2] = "bad"
    /\ loadAttempts = <<1, 2>>
    /\ ruleSet = <<1>>
    /\ exitCode = RULE_NOT_FOUND

\* what reporter j's stream holds: its file, or its part of standard output
OutputOf(j) ==
    IF outStreams[j].kind = "file"
    THEN files[outStreams[j].path]
    ELSE SelectSeq(stdout, LAMBDA c : c.reporter = selected[j])

\* the complete report of reporter j
CompleteOutputOf(j) ==
    <<[reporter |-> selected[j], view |-> results, complete |-> TRUE]>>

\* C6: every reporter before the current one holds its complete output, at
\* every later moment; and when the run ended with ErrorWhileReporting at
\* reporter idx, no stream was resolved and no report invoked for a later
\* reporter.
C6_ReportingAbortsAtFirstFailure ==
    /\ \A j \in 1..Len(selected) :
           j < idx => (j <= Len(outStreams) /\ OutputOf(j) = CompleteOutputOf(j))
    /\ exitCode = ERROR_WHILE_REPORTING =>
           /\ pc = "done"
           /\ idx \in 1..Len(selected)
           /\ Len(outStreams) \in {idx - 1, idx}
           /\ reportCalls \in {SubSeq(selected, 1, idx - 1), SubSeq(selected, 1, idx)}
           /\ exitCalls = 0

\* C6 witness: two reporters with an output template, the first file is
\* complete, the second could not be opened.
C6_Witness ==
    /\ exitCode = ERROR_WHILE_REPORTING
    /\ hasOutputPath
    /\ Len(selected) = 2
    /\ idx = 2
    /\ Len(outStreams) = 1
    /\ files[outStreams[1].path] = CompleteOutputOf(1)
    /\ reportCalls = <<selected[1]>>

\* C7: with the template out/report.txt the json reporter's file is
\* out/report.json, and with the template report the xml reporter's file is
\* report.xml.
C7_OutputPathDerivation ==
    \A i \in 1..Len(outStreams) :
        /\ (outputPath = OutReportTxt /\ selected[i] = Json)
               => outStreams[i] = FileStream(OutReportJson)
        /\ (outputPath = ReportNoDir /\ selected[i] = Xml)
               => outStreams[i] = FileStream(ReportXml)

\* C8: without an output template every stream handed to a reporter is the
\* one standard-output stream, it is never closed, and no file is opened.
C8_SharedStdoutNeverClosed ==
    ~hasOutputPath =>
        /\ \A i \in 1..Len(outStreams) : outStreams[i] = Cout
        /\ Len(reportCalls) <= Len(outStreams)
        /\ ~coutClosed
        /\ openFiles = {}
        /\ DOMAIN files = {}

\* C8 witness: two reporters have both reported to standard output and their
\* streams were disposed.
C8_Witness ==
    /\ ~hasOutputPath
    /\ Len(selected) = 2
    /\ outStreams = <<Cout, Cout>>
    /\ idx = 3
    /\ Len(stdout) = 2

\* C9: once the engine has thrown, the run is over with ErrorWhileProcessing,
\* no view was built, no stream resolved, no reporter invoked, nothing
\* written, and the exit decision was not evaluated.
C9_ProcessingErrorAbortsRun ==
    engine = "threw" =>
        /\ pc = "done"
        /\ exitCode = ERROR_WHILE_PROCESSING
        /\ results = NoResults
        /\ outStreams = <<>>
        /\ reportCalls = <<>>
        /\ DOMAIN files = {}
        /\ stdout = <<>>
        /\ exitCalls = 0
        /\ "results" \notin Range(phases)

\* C9 witness: the engine threw after recording violations and a hard error.
C9_Witness ==
    /\ engine = "threw"
    /\ Len(collector.log) > 0
    /\ collector.errors
    /\ exitCode = ERROR_WHILE_PROCESSING

PhaseOrder == <<"loading", "analysis", "results", "reporting", "exit">>

\* C10: the phases started so far are an initial part of loading, analysis,
\* results, reporting, exit (so none is skipped, repeated or out of order);
\* each starts only when the one before is complete; and the view exists only
\* once the engine has returned, never while it is running.
C10_PhasesInSequence ==
    /\ Len(phases) <= Len(PhaseOrder)
    /\ phases = SubSeq(PhaseOrder, 1, Len(phases))
    /\ "analysis" \in Range(phases) =>
           (AllPathsLoaded /\ Len(ruleSet) > 0 /\ reporterLoaded)
    /\ "results" \in Range(phases) => engine = "returned"
    /\ "reporting" \in Range(phases) => results # NoResults
    /\ "exit" \in Range(phases) =>
           (idx > Len(selected) /\ Len(reportCalls) = Len(selected))
    /\ results # NoResults => engine = "returned"
    /\ engine = "running" => (results = NoResults /\ pc = "analysis")
    /\ exitCalls <= 1

\* C10 witness: a run with a reporter went through all five phases.
C10_Witness ==
    /\ phases = PhaseOrder
    /\ Len(selected) > 0
    /\ Len(collector.log) > 0
    /\ pc = "done"


\* the number of times x occurs in q
Occurrences(q, x) == Cardinality({i \in 1..Len(q) : q[i] = x})

\* every chunk a reporter wrote, to standard output or to a file
ChunksWritten ==
    Range(stdout) \cup UNION {Range(files[p]) : p \in DOMAIN files}

\* C11: the view is built at most once and only after the engine returned;
\* it is the Raw view (the log as it is) exactly when duplicated violations
\* are allowed, else the Unique view; the reporters invoked are the active
\* ones in configured order, each once, every report written is of that one
\* view, and the exit decision is taken on it after all of them.
C11_OneViewForReportersAndExit ==
    /\ Occurrences(phases, "results") <= 1
    /\ (results = NoResults) <=> ("results" \notin Range(phases))
    /\ results # NoResults =>
           /\ engine = "returned"
           /\ results.kind = (IF allowDup THEN "Raw" ELSE "Unique")
           /\ allowDup => results.entries = collector.log
           /\ ~allowDup => /\ Distinct([i \in 1..Len(results.entries) |->
                                           IdentityKey(results.entries[i])])
                           /\ Range(results.entries) \subseteq Range(collector.log)
           /\ results.hasErrors = collector.errors
    /\ Len(reportCalls) <= Len(selected)
    /\ reportCalls = SubSeq(selected, 1, Len(reportCalls))
    /\ \A c \in ChunksWritten : c.view = results
    /\ exitCalls > 0 =>
           /\ reportCalls = selected
           /\ exitCode = (IF results.hasErrors THEN COMPILATION_ERRORS
                          ELSE IF \E p \in 1..3 : Count(p) > maxP[p]
                               THEN VIOLATIONS_EXCEED_THRESHOLD
                          ELSE SUCCESS)

\* C11 witness: duplicates are not allowed, the log holds a duplicate, two
\* reporters wrote the Unique view and the exit decision was taken.
C11_Witness ==
    /\ ~allowDup
    /\ Len(collector.log) = 2
    /\ Len(results.entries) = 1
    /\ reportCalls = selected
    /\ Len(selected) = 2
    /\ Cardinality(ChunksWritten) = 2
    /\ exitCalls = 1


\* the outcomes of the fatal conditions
FatalOutcomes ==
    {RULE_NOT_FOUND, REPORTER_NOT_FOUND, ERROR_WHILE_PROCESSING,
     ERROR_WHILE_REPORTING}

\* the lines of cerr that are not empty
DiagnosticLines == SelectSeq(stderr, LAMBDA l : l.text # "")

\* C12: a run that ended with a fatal outcome has printed exactly one
\* diagnostic line on cerr (after the empty line printErrorLine starts with),
\* and nothing is printed on cerr before the run ends.
C12_OneDiagnosticPerFatalOutcome ==
    /\ exitCode \in FatalOutcomes =>
           /\ Len(DiagnosticLines) = 1
           /\ stderr[Len(stderr)] = DiagnosticLines[1]
           /\ DiagnosticLines[1].counts = <<>>
    /\ exitCode = None => stderr = <<>>

\* C12 witness: the second reporter failed and the one error line is there.
C12_Witness ==
    /\ exitCode = ERROR_WHILE_REPORTING
    /\ Len(reportCalls) = 2
    /\ Len(DiagnosticLines) = 1

\* C13: when the outcome is ViolationsExceedThreshold the last line on cerr
\* gives, for each of the three priorities, the count of the view the
\* decision was taken on and the ceiling, after the error line.
C13_DiagnosticReportsAllPriorities ==
    exitCode = VIOLATIONS_EXCEED_THRESHOLD =>
        /\ Len(stderr) >= 2
        /\ stderr[Len(stderr)].counts =
               <<Count(1), maxP[1], Count(2), maxP[2], Count(3), maxP[3]>>
        /\ stderr[Len(stderr) - 1] = ErrorLine("violations exceed threshold")

\* C13 witness: only priority 3 is above its ceiling.
C13_Witness ==
    /\ exitCode = VIOLATIONS_EXCEED_THRESHOLD
    /\ Count(1) > 0 /\ Count(1) <= maxP[1]
    /\ Count(2) <= maxP[2]
    /\ Count(3) > maxP[3]


\* the identity keys of a log, in order
Keys(log) == [i \in 1..Len(log) |-> IdentityKey(log[i])]

\* C14: the Raw view counts every entry of the log; the Unique view counts
\* at most as many, and as many exactly when the keys of the log are all
\* distinct.
C14_RawAndUniqueCounts ==
    results # NoResults =>
        /\ Len(RawResults(collector).entries) = Len(collector.log)
        /\ Len(UniqueResults(collector).entries) <= Len(RawResults(collector).entries)
        /\ Len(UniqueResults(collector).entries) = Len(RawResults(collector).entries)
               <=> Distinct(Keys(collector.log))
        /\ Len(results.entries) =
               (IF allowDup THEN Len(collector.log)
                ELSE Cardinality(Range(Keys(collector.log))))

\* C14 witness: the Unique view of a log of three entries with two keys.
C14_Witness ==
    /\ results.kind = "Unique"
    /\ Len(collector.log) = 3
    /\ Len(results.entries) = 2

\* the positions of the log that hold the first occurrence of their key
FirstSeen(log) ==
    {i \in 1..Len(log) :
        \A j \in 1..(i - 1) : IdentityKey(log[j]) # IdentityKey(log[i])}

\* the k-th smallest member of the set I of numbers
KthSmallest(I, k) == CHOOSE i \in I : Cardinality({j \in I : j <= i}) = k

\* C15: the Unique view is the log restricted to the first occurrence of
\* every key, in the order of the log.
C15_UniqueIsFirstSeenSubsequence ==
    results.kind = "Unique" =>
        /\ Len(results.entries) = Cardinality(FirstSeen(collector.log))
        /\ \A k \in 1..Len(results.entries) :
               results.entries[k] =
                   collector.log[KthSmallest(FirstSeen(collector.log), k)]

\* C15 witness: the log holds two findings of one key that differ in
\* priority, and a finding of another key between them.
C15_Witness ==
    /\ results.kind = "Unique"
    /\ Len(collector.log) = 3
    /\ IdentityKey(collector.log[1]) = IdentityKey(collector.log[3])
    /\ collector.log[1] # collector.log[3]
    /\ results.entries = SubSeq(collector.log, 1, 2)

\* C16: deduplicating the Unique view again gives the same view, and a log
\* whose keys are all distinct is its own Unique view.
C16_DeduplicationIdempotent ==
    results.kind = "Unique" =>
        /\ UniqueEntries(results.entries) = results.entries
        /\ Distinct(Keys(collector.log)) => results.entries = collector.log

\* C16 witness: a log of three findings of one key was deduplicated.
C16_Witness ==
    /\ results.kind = "Unique"
    /\ Len(collector.log) = 3
    /\ Cardinality(Range(Keys(collector.log))) = 1
    /\ Len(results.entries) = 1


\* what writer w has recorded so far, in the order of the log
RecordedBy(w) == SelectSeq(collector.log, LAMBDA v : v.rule = w)

\* what writer w has finished recording, in the order it was given
DoneBy(w) ==
    SubSeq(writers.given[w], 1, Len(writers.given[w]) - Len(writers.todo[w]))

RECURSIVE SumOver(_, _)
SumOver(f, S) ==
    IF S = {} THEN 0
    ELSE LET w == CHOOSE x \in S : TRUE IN f[w] + SumOver(f, S \ {w})

\* C17: at every moment the log holds exactly what each writer has finished
\* recording, once each and in that writer's order; so when the engine has
\* returned it holds everything every writer was given.
C17_ConcurrentAppendsSerialized ==
    /\ \A w \in Writers : RecordedBy(w) = DoneBy(w)
    /\ Len(collector.log) = SumOver([w \in Writers |-> Len(DoneBy(w))], Writers)
    /\ engine = "returned" =>
           \A w \in Writers : RecordedBy(w) = writers.given[w]

\* C17 witness: three writers recorded two violations each, interleaved.
C17_Witness ==
    /\ engine = "returned"
    /\ \A w \in Writers : Len(writers.given[w]) = 2
    /\ Len(collector.log) = 6
    /\ collector.log[1].rule # collector.log[2].rule
    /\ collector.log[1].rule = collector.log[3].rule


\* C18: at most one file-backed stream is open at a time, and none is open
\* once main() has returned.
C18_FileStreamsClosedBeforeExit ==
    /\ Cardinality(openFiles) <= 1
    /\ exitCode # None => openFiles = {}

\* C19: the exit decision is taken only when every active reporter has been
\* invoked and has written its complete report, also when the view has hard
\* errors or counts above a ceiling; and a run in which a reporter failed
\* ends with ErrorWhileReporting without the exit decision being taken.
C19_ExitDecisionAfterReporters ==
    /\ exitCalls > 0 =>
           /\ idx = Len(selected) + 1
           /\ reportCalls = selected
           /\ \A j \in 1..Len(selected) : OutputOf(j) = CompleteOutputOf(j)
    /\ exitCode \in {COMPILATION_ERRORS, VIOLATIONS_EXCEED_THRESHOLD, SUCCESS}
           => exitCalls = 1
    /\ (pc = "done" /\ results # NoResults /\ idx <= Len(selected)) =>
           (exitCode = ERROR_WHILE_REPORTING /\ exitCalls = 0)

\* C19 witness: a reporter failed on a view that has a hard error and a
\* count above its ceiling.
C19_Witness ==
    /\ exitCode = ERROR_WHILE_REPORTING
    /\ results.hasErrors
    /\ Count(1) > maxP[1]
    /\ Len(reportCalls) = Len(selected)

Outcomes ==
    {SUCCESS, RULE_NOT_FOUND, REPORTER_NOT_FOUND, ERROR_WHILE_PROCESSING,
     ERROR_WHILE_REPORTING, COMPILATION_ERRORS, VIOLATIONS_EXCEED_THRESHOLD}

\* C20: main() has returned exactly when it has an outcome, which is one of
\* the seven; a run that has not returned can take a step; and the outcome
\* is Success exactly when all rule paths loaded with a rule registered,
\* every requested reporter resolved, the engine returned, every reporter
\* completed, no hard error was recorded and no count is above its ceiling.
C20_OutcomeIsOneOfSevenAndSuccessIff ==
    /\ (pc = "done") <=> (exitCode # None)
    /\ pc = "done" => exitCode \in Outcomes
    /\ pc # "done" => ENABLED Next
    /\ pc = "done" =>
           (exitCode = SUCCESS <=>
               /\ RulesConfiguredOk
               /\ ~Unresolved
               /\ engine = "returned"
               /\ reportCalls = selected
               /\ idx = Len(selected) + 1
               /\ \A j \in 1..Len(selected) : OutputOf(j) = CompleteOutputOf(j)
               /\ ~collector.errors
               /\ \A p \in 1..3 : Count(p) <= maxP[p])

\* C20 witness: a successful run with two reporters and a recorded violation
\* that is within its ceiling.
C20_Witness ==
    /\ exitCode = SUCCESS
    /\ Len(selected) = 2
    /\ Len(collector.log) > 0
    /\ Len(rulesPath) = 2

====
